---- MODULE Spec2Model ----
(***************************************************************************)
(* A model of diffpy.utils.parsers.serialization: serialize_data builds a  *)
(* one-entry Record {title: data} from header metadata and a data table    *)
(* and optionally merges it into a JSON store on disk; deserialize_data    *)
(* loads such a store.                                                     *)
(*                                                                         *)
(* Python values are tagged records (field t), dictionaries are functions  *)
(* from key strings to values, JSON documents are a separate tagged tree.  *)
(***************************************************************************)
EXTENDS Integers, Sequences, FiniteSets, TLC

VARIABLES fs, pc, call, data, result, warnings, file_data, prev,
          written, store0, clean

vars == <<fs, pc, call, data, result, warnings, file_data, prev,
          written, store0, clean>>

(***************************************************************************)
(* Python values                                                           *)
(***************************************************************************)
NoneVal == [t |-> "none"]
\* a Python number; numpy.float64 is a subclass of float and behaves as one
Num(n) == [t |-> "num", n |-> n]
\* a numpy integer scalar (numpy.int64): not a Python int
NpInt(n) == [t |-> "npint", n |-> n]
Str(s) == [t |-> "str", s |-> s]
List(items) == [t |-> "list", items |-> items]
\* a two-dimensional numpy.ndarray; rows is a sequence of sequences of numbers
NdArray(dtype, rows) == [t |-> "ndarray", dtype |-> dtype, rows |-> rows]
Dict(d) == [t |-> "dict", d |-> d]
BoolVal(b) == [t |-> "bool", b |-> b]

EmptyDict == [k \in {} |-> NoneVal]

\* dict.update({k: v})
Update(d, k, v) == [x \in DOMAIN d \cup {k} |-> IF x = k THEN v ELSE d[x]]

\* dict.update(e)
UpdateAll(d, e) ==
    [x \in DOMAIN d \cup DOMAIN e |-> IF x \in DOMAIN e THEN e[x] ELSE d[x]]

(***************************************************************************)
(* pathlib: a path is a flag (absolute or not) and a sequence of           *)
(* components; a component is the sequence of its dot-separated pieces.    *)
(***************************************************************************)
Path(abs, parts) == [t |-> "path", abs |-> abs, parts |-> parts]

\* the working directory of the process
Cwd == << <<"work">> >>

RECURSIVE Join(_, _)
Join(pieces, sep) ==
    IF Len(pieces) = 0 THEN ""
    ELSE IF Len(pieces) = 1 THEN pieces[1]
    ELSE pieces[1] \o sep \o Join(Tail(pieces), sep)

RECURSIVE ComponentStrings(_)
ComponentStrings(parts) ==
    IF Len(parts) = 0 THEN <<>>
    ELSE <<Join(parts[1], ".")>> \o ComponentStrings(Tail(parts))

\* Resolve without the working directory
ResolveKeepsRelative(p) == p

\* pathlib.Path(p).resolve(): a relative path is taken from the working
\* directory (the inputs hold no "..", no "." and no symbolic link)
Resolve(p) == IF p.abs THEN p ELSE Path(TRUE, Cwd \o p.parts)

\* PurePath.as_posix() of an absolute path
AsPosix(p) ==
    (IF p.abs THEN "/" ELSE "") \o Join(ComponentStrings(p.parts), "/")

\* PurePath.name: the final component
PathName(p) ==
    IF Len(p.parts) = 0 THEN "" ELSE Join(p.parts[Len(p.parts)], ".")

\* PurePath.suffix: the text from the last dot of the name, when that dot is
\* neither the first nor the last character of the name
PathSuffix(p) ==
    IF Len(p.parts) = 0 THEN ""
    ELSE LET pieces == p.parts[Len(p.parts)]
             n == Len(pieces)
         IN  IF n >= 2 /\ pieces[n] # ""
                /\ Join(SubSeq(pieces, 1, n - 1), ".") # ""
             THEN "." \o pieces[n]
             ELSE ""

supported_formats == {".json"}

(***************************************************************************)
(* The data table                                                          *)
(***************************************************************************)
\* [len(row) for row in data_table]
RowLengths(data_table) ==
    IF data_table.t = "ndarray"
    THEN [i \in 1..Len(data_table.rows) |-> Len(data_table.rows[i])]
    ELSE [i \in 1..Len(data_table.items) |-> Len(data_table.items[i].items)]

NumRows(data_table) == Len(RowLengths(data_table))

\* max(num_columns), for a table that has a row
MaxOf(lens) ==
    CHOOSE m \in {lens[i] : i \in 1..Len(lens)} :
        \A i \in 1..Len(lens) : lens[i] <= m

\* list(data_table[:, idx]) for an ndarray (idx counts from 1 here): the
\* elements are numpy scalars of the array's dtype
Column(data_table, idx) ==
    List([i \in 1..Len(data_table.rows) |->
            IF data_table.dtype = "float"
            THEN Num(data_table.rows[i][idx])
            ELSE NpInt(data_table.rows[i][idx])])

OverwriteWarning(key) == [kind |-> "overwrite", key |-> key]
EmptyWarning == [kind |-> "empty", key |-> ""]

\* the first 82 lines of serialize_data: the derived path, then hdata
HeaderData(filename, hdata, show_path) ==
    LET abs_path == Resolve(filename)
        d0 == IF show_path /\ "path" \notin DOMAIN hdata
              THEN Update(EmptyDict, "path", Str(AsPosix(abs_path)))
              ELSE EmptyDict
    IN  UpdateAll(d0, hdata)

\* whether a warning is due before a named column is stored
ColumnCollides(colname, hdata) == colname \in DOMAIN hdata

\* the loop over range(num_col_names); st carries data, named_columns, the
\* warnings so far and the exception that ended the loop, if any
RECURSIVE NameColumns(_, _, _, _, _)
NameColumns(hdata, data_table, names, idx, st) ==
    IF idx > Len(names) THEN st
    ELSE LET colname == names[idx] IN
         IF colname.t = "none"
         THEN NameColumns(hdata, data_table, names, idx + 1, st)
         ELSE LET w == IF ColumnCollides(colname.s, hdata)
                       THEN Append(st.warnings, OverwriteWarning(colname.s))
                       ELSE st.warnings
              IN  IF data_table.t # "ndarray"
                  \* a list cannot be indexed by [:, idx]
                  THEN [st EXCEPT !.warnings = w, !.exc = "TypeError"]
                  ELSE IF idx > Len(data_table.rows[1])
                  \* an index past the last axis of the array
                  THEN [st EXCEPT !.warnings = w, !.exc = "IndexError"]
                  ELSE NameColumns(hdata, data_table, names, idx + 1,
                         [st EXCEPT
                            !.data = Update(st.data, colname.s,
                                            Column(data_table, idx)),
                            !.named_columns = st.named_columns + 1,
                            !.warnings = w])

\* NeedsDataTable with the comparison off by one
NeedsDataTableLeq(named_columns, max_columns) == named_columns <= max_columns

\* whether the whole table is stored under "data table"
NeedsDataTable(named_columns, max_columns) == named_columns < max_columns

\* the final step: the 'data table' entry
AddDataTable(st, data_table, max_columns) ==
    IF NeedsDataTable(st.named_columns, max_columns)
    THEN [st EXCEPT
            !.data = Update(st.data, "data table", data_table),
            !.warnings = IF "data table" \in DOMAIN st.data
                         THEN Append(st.warnings,
                                     OverwriteWarning("data table"))
                         ELSE st.warnings]
    ELSE st

\* TooManyNames letting one name too many through
TooManyNamesOffByOne(max_columns, num_col_names) ==
    max_columns + 1 < num_col_names

\* whether the size check raises ImproperSizeError
TooManyNames(max_columns, num_col_names) == max_columns < num_col_names

\* serialize_data up to the Record: the Data Object, the warnings emitted
\* and the exception raised ("" when none)
BuildData(filename, hdata, data_table, dt_colnames, show_path) ==
    LET st0 == [data |-> HeaderData(filename, hdata, show_path),
                named_columns |-> 0, warnings |-> <<>>, exc |-> ""]
    IN  IF dt_colnames.t = "none"
        THEN AddDataTable(st0, data_table, 1)
        ELSE IF NumRows(data_table) = 0
        THEN [st0 EXCEPT !.exc = "ValueError"]
        ELSE LET max_columns == MaxOf(RowLengths(data_table))
                 num_col_names == Len(dt_colnames.items)
             IN  IF TooManyNames(max_columns, num_col_names)
                 THEN [st0 EXCEPT !.exc = "ImproperSizeError"]
                 ELSE LET st1 == NameColumns(hdata, data_table,
                                             dt_colnames.items, 1, st0)
                      IN  IF st1.exc # "" THEN st1
                          ELSE AddDataTable(st1, data_table, max_columns)

\* title = abs_path.name
Title(filename) == PathName(Resolve(filename))

(***************************************************************************)
(* JSON: the document tree json.dump writes and json.load reads            *)
(***************************************************************************)
JNum(n) == [j |-> "number", n |-> n]
JStr(s) == [j |-> "string", s |-> s]
JArr(items) == [j |-> "array", items |-> items]
JObj(members) == [j |-> "object", members |-> members]
JNull == [j |-> "null"]
JBool(b) == [j |-> "bool", b |-> b]

\* NumpyEncoder.default: an ndarray becomes data_obj.tolist(), anything else
\* the encoder does not know raises TypeError
DefaultHandles(v) == v.t = "ndarray"

\* whether json.dump(v, cls=NumpyEncoder) completes
RECURSIVE Encodable(_)
Encodable(v) ==
    CASE v.t \in {"num", "str", "none", "bool"} -> TRUE
      [] v.t = "list" -> \A i \in 1..Len(v.items) : Encodable(v.items[i])
      [] v.t = "dict" -> \A k \in DOMAIN v.d : Encodable(v.d[k])
      [] OTHER -> DefaultHandles(v)

\* ToList losing the rows: one flat list of the numbers of the first row
ToListFlat(a) ==
    List(IF Len(a.rows) = 0 THEN <<>>
         ELSE [c \in 1..Len(a.rows[1]) |-> Num(a.rows[1][c])])

\* ndarray.tolist(): nested lists of Python numbers
ToList(a) ==
    List([i \in 1..Len(a.rows) |->
            List([c \in 1..Len(a.rows[i]) |-> Num(a.rows[i][c])])])

\* the document json.dump(v, cls=NumpyEncoder) writes, for an encodable v
RECURSIVE ToJson(_)
ToJson(v) ==
    CASE v.t = "num" -> JNum(v.n)
      [] v.t = "str" -> JStr(v.s)
      [] v.t = "none" -> JNull
      [] v.t = "bool" -> JBool(v.b)
      [] v.t = "list" -> JArr([i \in 1..Len(v.items) |-> ToJson(v.items[i])])
      [] v.t = "dict" -> JObj([k \in DOMAIN v.d |-> ToJson(v.d[k])])
      [] v.t = "ndarray" -> ToJson(ToList(v))
      [] OTHER -> JNull

\* the Python value json.load builds from a document
RECURSIVE FromJson(_)
FromJson(doc) ==
    CASE doc.j = "number" -> Num(doc.n)
      [] doc.j = "string" -> Str(doc.s)
      [] doc.j = "bool" -> BoolVal(doc.b)
      [] doc.j = "array" ->
            List([i \in 1..Len(doc.items) |-> FromJson(doc.items[i])])
      [] doc.j = "object" ->
            Dict([k \in DOMAIN doc.members |-> FromJson(doc.members[k])])
      [] OTHER -> NoneVal

(***************************************************************************)
(* The file system: the content of each file a call may name               *)
(***************************************************************************)
Absent == [kind |-> "absent"]
\* a file that open(..., "w") has just created or truncated
Truncated == [kind |-> "empty"]
\* the leading part of a JSON text, left by a dump that raised
Partial == [kind |-> "partial"]
\* text that is not JSON
PlainText == [kind |-> "text"]
JsonFile(doc) == [kind |-> "json", doc |-> doc]

\* the file a path names, as open() finds it from the working directory
FileKey(p) == AsPosix(Resolve(p))

\* what a dump that raises part-way leaves in the file: nothing when no
\* chunk reached the file, else the chunks written before the exception
FailedDumpContents == {Truncated, Partial}

\* the try/open/except FileNotFoundError of serialize_data
Exists(files, p) == files[FileKey(p)].kind # "absent"

\* Merge in which the entries already in the store win
MergeKeepsOld(loaded, entry) == Dict(UpdateAll(entry.d, loaded.d))

\* file_data.update(entry) on the mapping loaded from the store
Merge(loaded, entry) == Dict(UpdateAll(loaded.d, entry.d))

\* entry = {title: data}
Entry(title, d) == Dict([k \in {title} |-> Dict(d)])

\* Unsupported rejecting only a name without extension
UnsupportedOnlyEmpty(extension) == extension = ""

\* extension not in supported_formats
Unsupported(extension) == extension \notin supported_formats

Return(v) == [kind |-> "return", value |-> v]
Raise(exc) == [kind |-> "raise", exc |-> exc]
Running == [kind |-> "running"]
NoResult == [kind |-> "none"]
NoCall == [op |-> "none"]

(***************************************************************************)
(* Inputs                                                                  *)
(***************************************************************************)
\* the widest table the record-building specification draws
MaxCols == 2

\* the numbers of rows of the tables it draws
RowCounts == {0, 1, 2}

Cell(r, c) == 10 * r + c

\* a rectangular table of nr rows and nc columns
Rect(nr, nc) == [r \in 1..nr |-> [c \in 1..nc |-> Cell(r, c)]]

\* the same with every row after the first one column short
Ragged(nr, nc) ==
    [r \in 1..nr |-> [c \in 1..(IF r = 1 THEN nc ELSE nc - 1) |-> Cell(r, c)]]

\* a list of lists of Python numbers
ListTable(rows) ==
    List([r \in 1..Len(rows) |->
            List([c \in 1..Len(rows[r]) |-> Num(rows[r][c])])])

Shapes == {Rect(nr, nc) : nr \in RowCounts, nc \in 0..MaxCols}

Tables ==
    {NdArray(dtype, rows) : dtype \in {"float", "int"}, rows \in Shapes}
    \cup {ListTable(rows) : rows \in Shapes}
    \cup {ListTable(Ragged(nr, nc)) : nr \in RowCounts \ {0, 1},
                                      nc \in 1..MaxCols}

ColumnNameChoices == {NoneVal, Str("x"), Str("path"), Str("data table")}

\* dt_colnames: None, or up to one name more than the widest table has columns
ColumnNames ==
    {NoneVal} \cup
    {List(names) : names \in
        UNION {[1..n -> ColumnNameChoices] : n \in 0..(MaxCols + 1)}}

Headers ==
    { EmptyDict,
      [k \in {"temp", "x"} |-> IF k = "temp" THEN Num(300) ELSE Num(0)],
      [k \in {"path", "data table"} |->
          IF k = "path" THEN Str("elsewhere") ELSE Str("old")] }

Run1 == Path(FALSE, << <<"run1", "dat">> >>)
Run2 == Path(TRUE, << <<"data">>, <<"run2", "dat">> >>)

StoreFile == Path(FALSE, << <<"store", "json">> >>)
NotesFile == Path(FALSE, << <<"notes", "txt">> >>)

\* the arguments of a serialize_data call, in the order of its signature
SerializeArgs(filename, hdata, table, colnames, show_path, serial_file) ==
    [filename |-> filename, hdata |-> hdata, data_table |-> table,
     dt_colnames |-> colnames, show_path |-> show_path,
     serial_file |-> serial_file]

\* the source file and the output file of a record-building call
BuildTargets == {<<Run1, NoneVal>>, <<Run2, NoneVal>>, <<Run1, NotesFile>>}

\* the calls of the record-building specification: nothing is saved
BuildArgs ==
    {SerializeArgs(target[1], h, tb, cn, sp, target[2]) :
        target \in BuildTargets, h \in Headers, tb \in Tables,
        cn \in ColumnNames, sp \in BOOLEAN}

Square == Rect(2, 2)

\* the calls of the store specification
StoreArgs ==
    {SerializeArgs(f, h, tb, cn, TRUE, sf) :
        f \in {Run1, Run2},
        h \in {[k \in {"temp"} |-> Num(300)]},
        tb \in {ListTable(Square), NdArray("float", Square),
                NdArray("int", Square)},
        cn \in {NoneVal, List(<<Str("x"), Str("y")>>),
                List(<<Str("x"), Str("y"), Str("z")>>)},
        sf \in {NoneVal, StoreFile, NotesFile}}

DeserializeFiles == {StoreFile, NotesFile}
FileTypes == {NoneVal, Str(".json"), Str(".yaml")}

\* a store written by an earlier run
OldEntry ==
    [k \in {"old.dat"} |->
        JObj([m \in {"data table"} |-> JArr(<<JArr(<<JNum(7)>>)>>)])]

InitialStores == {Absent, JsonFile(JObj(OldEntry))}

Files == {FileKey(StoreFile), FileKey(NotesFile)}

(***************************************************************************)
(* The state                                                               *)
(*   fs         the content of each file                                   *)
(*   pc         where the running call stands: "idle" between calls,       *)
(*              "create" / "truncate" before open(serial_file, "w") of the *)
(*              new-file / update branch, "dump" before json.dump          *)
(*   call       the arguments of the last call                             *)
(*   data       the Data Object the last serialize_data built              *)
(*   result     what the last call returned or raised                      *)
(*   warnings   the warnings the last call emitted                         *)
(*   file_data  the mapping the running call is about to dump              *)
(*   prev       history: the successful serialize_data call that saved to  *)
(*              the file a deserialize_data loads right after it, with its *)
(*              data and result                                            *)
(*   written    history: per title, the document of the Data Object the    *)
(*              most recent successful save to the store wrote             *)
(*   store0     history: the store's entries before the first call         *)
(*   clean      history: no call that named the store has failed           *)
(***************************************************************************)
NoPrev == [call |-> NoCall, data |-> EmptyDict, result |-> NoResult]

InitFiles(store, notes) ==
    [f \in Files |-> IF f = FileKey(StoreFile) THEN store ELSE notes]

InitCommon ==
    /\ pc = "idle"
    /\ data = EmptyDict
    /\ result = NoResult
    /\ warnings = <<>>
    /\ file_data = NoneVal
    /\ prev = NoPrev
    /\ written = EmptyDict
    /\ clean = TRUE

Init ==
    /\ \E store \in InitialStores, notes \in {Absent, PlainText} :
          /\ fs = InitFiles(store, notes)
          /\ store0 = IF store.kind = "json" THEN store.doc.members
                      ELSE EmptyDict
    /\ call = NoCall
    /\ InitCommon

\* whether the update branch is taken
TakesUpdateBranch(existing) == existing

\* serialize_data from its first line to the first write, or to its return
\* or exception when it does not get that far
DoSerialize(a) ==
    LET b == BuildData(a.filename, a.hdata, a.data_table, a.dt_colnames,
                       a.show_path)
        entry == Entry(Title(a.filename), b.data)
        named == a.serial_file.t # "none"
                 /\ FileKey(a.serial_file) = FileKey(StoreFile)
        Finish(r, w) ==
            /\ result' = r
            /\ warnings' = w
            /\ pc' = "idle"
            /\ file_data' = NoneVal
            /\ clean' = (clean /\ ~(named /\ r.kind = "raise"))
    IN  /\ pc = "idle"
        /\ call' = a @@ [op |-> "serialize"]
        /\ data' = b.data
        /\ prev' = NoPrev
        /\ UNCHANGED <<fs, written, store0>>
        /\ IF b.exc # "" THEN Finish(Raise(b.exc), b.warnings)
           ELSE IF a.serial_file.t = "none"
           THEN Finish(Return(entry), b.warnings)
           ELSE IF Unsupported(PathSuffix(a.serial_file))
           THEN Finish(Raise("UnsupportedTypeError"), b.warnings)
           ELSE IF PathSuffix(a.serial_file) # ".json"
           \* no branch assigns file_data: return file_data fails
           THEN Finish(Raise("UnboundLocalError"), b.warnings)
           ELSE IF ~TakesUpdateBranch(Exists(fs, a.serial_file))
           THEN /\ file_data' = entry
                /\ pc' = "create"
                /\ result' = Running
                /\ warnings' = b.warnings
                /\ clean' = clean
           ELSE IF fs[FileKey(a.serial_file)].kind # "json"
           THEN Finish(Raise("JSONDecodeError"), b.warnings)
           ELSE /\ file_data' =
                      Merge(FromJson(fs[FileKey(a.serial_file)].doc), entry)
                /\ pc' = "truncate"
                /\ result' = Running
                /\ warnings' = b.warnings
                /\ clean' = clean

SerializeData == \E a \in StoreArgs : DoSerialize(a)

\* with open(serial_file, "w") as jsonfile, in the new-file branch
OpenNew ==
    /\ pc = "create"
    /\ fs' = [fs EXCEPT ![FileKey(call.serial_file)] = Truncated]
    /\ pc' = "dump"
    /\ UNCHANGED <<call, data, result, warnings, file_data, prev, written,
                   store0, clean>>

\* with open(serial_file, "w") as json_write, in the update branch
OpenExisting ==
    /\ pc = "truncate"
    /\ fs' = [fs EXCEPT ![FileKey(call.serial_file)] = Truncated]
    /\ pc' = "dump"
    /\ UNCHANGED <<call, data, result, warnings, file_data, prev, written,
                   store0, clean>>

\* json.dump(file_data, ..., indent=2, cls=NumpyEncoder), and the return
Dump ==
    /\ pc = "dump"
    /\ pc' = "idle"
    /\ file_data' = NoneVal
    /\ IF Encodable(file_data)
       THEN /\ fs' = [fs EXCEPT ![FileKey(call.serial_file)] =
                                    JsonFile(ToJson(file_data))]
            /\ result' = Return(file_data)
            /\ written' = Update(written, Title(call.filename),
                                 ToJson(Dict(data)))
            /\ clean' = clean
       ELSE /\ \E left \in FailedDumpContents :
                  fs' = [fs EXCEPT ![FileKey(call.serial_file)] = left]
            /\ result' = Raise("TypeError")
            /\ written' = written
            /\ clean' = FALSE
    /\ UNCHANGED <<call, data, warnings, prev, store0>>

\* whether deserialize_data checks the extension against supported_formats
ChecksExtension(filetype) == filetype.t = "none"

\* deserialize_data(filename, filetype)
DoDeserialize(filename, filetype) ==
    LET extension == IF filetype.t = "none" THEN PathSuffix(filename)
                     ELSE filetype.s
        content == fs[FileKey(filename)]
        return_dict == IF extension = ".json" THEN FromJson(content.doc)
                       ELSE Dict(EmptyDict)
    IN  /\ pc = "idle"
        /\ call' = [op |-> "deserialize", filename |-> filename,
                    filetype |-> filetype]
        /\ prev' = IF call.op = "serialize" /\ result.kind = "return"
                      /\ call.serial_file = filename
                   THEN [call |-> call, data |-> data, result |-> result]
                   ELSE NoPrev
        /\ data' = EmptyDict
        /\ UNCHANGED <<fs, pc, file_data, written, store0, clean>>
        /\ IF ChecksExtension(filetype) /\ Unsupported(extension)
           THEN /\ result' = Raise("UnsupportedTypeError")
                /\ warnings' = <<>>
           ELSE IF extension = ".json" /\ content.kind = "absent"
           THEN /\ result' = Raise("FileNotFoundError")
                /\ warnings' = <<>>
           ELSE IF extension = ".json" /\ content.kind # "json"
           THEN /\ result' = Raise("JSONDecodeError")
                /\ warnings' = <<>>
           ELSE /\ result' = Return(return_dict)
                /\ warnings' = IF DOMAIN return_dict.d = {}
                               THEN <<EmptyWarning>> ELSE <<>>

DeserializeData ==
    \E filename \in DeserializeFiles, filetype \in FileTypes :
        DoDeserialize(filename, filetype)

Next == SerializeData \/ OpenNew \/ OpenExisting \/ Dump \/ DeserializeData

Spec == Init /\ [][Next]_vars

(***************************************************************************)
(* Record building alone: Init draws the arguments of one call that saves  *)
(* nothing, SerializeRecord runs it.                                       *)
(***************************************************************************)
InitBuild ==
    /\ fs = InitFiles(Absent, Absent)
    /\ store0 = EmptyDict
    /\ \E a \in BuildArgs : call = a @@ [op |-> "pending"]
    /\ InitCommon

SerializeRecord ==
    /\ call.op = "pending"
    /\ DoSerialize(SerializeArgs(call.filename, call.hdata, call.data_table,
                                 call.dt_colnames, call.show_path,
                                 call.serial_file))

NextBuild == SerializeRecord

SpecBuild == InitBuild /\ [][NextBuild]_vars

(***************************************************************************)
(* What the claims speak of, read off the arguments of the last call       *)
(***************************************************************************)
\* a serialize_data call has run to its end
Done == call.op = "serialize" /\ pc = "idle"

Succeeded == Done /\ result.kind = "return"

NamesGiven == call.dt_colnames.t # "none"

GivenNames == call.dt_colnames.items

NamedIndexes == {i \in 1..Len(GivenNames) : GivenNames[i].t # "none"}

NamedKeys == {GivenNames[i].s : i \in NamedIndexes}

\* the length of the longest row of the table of the last call
Widest ==
    LET lens == RowLengths(call.data_table)
    IN  CHOOSE w \in 0..(MaxCols + 1) :
            /\ \A i \in 1..Len(lens) : lens[i] <= w
            /\ \E i \in 1..Len(lens) : lens[i] = w

HasRows == NumRows(call.data_table) > 0

\* names were supplied, none is null and there are as many as columns
AllColumnsNamed ==
    /\ NamesGiven
    /\ HasRows
    /\ NamedIndexes = 1..Len(GivenNames)
    /\ Len(GivenNames) = Widest

\* the values at index i of every row, as Python numbers
ValuesAt(i) ==
    LET tb == call.data_table
    IN  [r \in 1..NumRows(tb) |->
            IF tb.t = "ndarray" THEN tb.rows[r][i] ELSE tb.items[r].items[i].n]

\* v is a list holding exactly these numbers
IsListOf(v, numbers) ==
    /\ v.t = "list"
    /\ Len(v.items) = Len(numbers)
    /\ \A r \in 1..Len(numbers) : v.items[r].n = numbers[r]

\* the absolute slash-separated path of each source file
ExpectedPath ==
    IF call.filename = Run1 THEN "/work/run1.dat" ELSE "/data/run2.dat"

Warned(key) ==
    \E i \in 1..Len(warnings) : warnings[i] = OverwriteWarning(key)

(***************************************************************************)
(* C1  For every successful serialize_data call the Data Object lacks the  *)
(* key "data table" exactly when column names were supplied, none is null  *)
(* and their number is the table's maximum row length; in every other case *)
(* the key is present and holds the whole data_table.  As stated.          *)
(***************************************************************************)
C1_DataTableAbsentIffAllNamed ==
    Succeeded =>
        /\ ("data table" \notin DOMAIN data) <=> AllColumnsNamed
        /\ ~AllColumnsNamed => data["data table"] = call.data_table

\* C1, amended: the Data Object lacks "data table" exactly when all columns
\* are named and neither the header metadata nor a column name supplies that
\* key; whenever not all columns are named the key holds the whole table.
C1_DataTableAbsentIffAllNamedAndNotSupplied ==
    Succeeded =>
        /\ ("data table" \notin DOMAIN data) <=>
              ( /\ AllColumnsNamed
                /\ "data table" \notin DOMAIN call.hdata
                /\ "data table" \notin NamedKeys )
        /\ ~AllColumnsNamed =>
              /\ "data table" \in DOMAIN data
              /\ data["data table"] = call.data_table

C1_Witness ==
    /\ Succeeded
    /\ AllColumnsNamed
    /\ Len(GivenNames) = 2
    /\ "data table" \notin DOMAIN data
    /\ "x" \in DOMAIN data

(***************************************************************************)
(* C5  For every successful call with show_path true and header metadata   *)
(* without a "path" key, whatever the table and the column names, the Data *)
(* Object holds "path", the absolute slash-separated path of filename.     *)
(* As stated.                                                              *)
(***************************************************************************)
C5_PathOfFilename ==
    (Succeeded /\ call.show_path /\ "path" \notin DOMAIN call.hdata) =>
        /\ "path" \in DOMAIN data
        /\ data["path"] = Str(ExpectedPath)

\* C5, amended: the same for the calls in which no column is named "path".
C5_PathOfFilenameUnlessColumn ==
    ( /\ Succeeded
      /\ call.show_path
      /\ "path" \notin DOMAIN call.hdata
      /\ NamesGiven => "path" \notin NamedKeys ) =>
        /\ "path" \in DOMAIN data
        /\ data["path"] = Str(ExpectedPath)

C5_Witness ==
    /\ Succeeded
    /\ call.show_path
    /\ call.filename = Run1
    /\ "temp" \in DOMAIN call.hdata
    /\ NamesGiven
    /\ NamedKeys = {"x"}
    /\ data["path"] = Str("/work/run1.dat")

(***************************************************************************)
(* C6  Whenever a key is supplied by more than one of the three sources of *)
(* the Data Object (the derived "path", the header metadata, the entries   *)
(* derived from the table), the later source's value ends up in the Data   *)
(* Object and an overwrite warning is emitted for that key.                *)
(***************************************************************************)
PathSupplied == call.show_path /\ "path" \notin DOMAIN call.hdata

TableKeys ==
    (IF NamesGiven THEN NamedKeys ELSE {})
    \cup (IF AllColumnsNamed THEN {} ELSE {"data table"})

\* the keys that an earlier source and the table both supply
Collisions ==
    TableKeys \cap
        (DOMAIN call.hdata \cup (IF PathSupplied THEN {"path"} ELSE {}))

\* the value the table gives a key: the table itself, else the last column
\* of that name
TableValueIs(key, v) ==
    IF key = "data table" /\ ~AllColumnsNamed
    THEN v = call.data_table
    ELSE \E i \in NamedIndexes :
            /\ GivenNames[i].s = key
            /\ \A j \in NamedIndexes : GivenNames[j].s = key => j <= i
            /\ IsListOf(v, ValuesAt(i))

C6_CollisionWarnsAndLaterWins ==
    Succeeded =>
        \A key \in Collisions :
            /\ Warned(key)
            /\ TableValueIs(key, data[key])

(***************************************************************************)
(* C7  For every data_table of either accepted shape (a list of rows or a  *)
(* two-dimensional array) and every column_names with no more entries than *)
(* the table has columns, serialize_data succeeds and stores, under each   *)
(* non-null name, the values at that index of every row.                   *)
(***************************************************************************)
C7_NamedColumnsStored ==
    ( /\ call.op = "serialize"
      /\ pc = "idle"
      /\ NamesGiven
      /\ HasRows
      /\ Len(GivenNames) <= Widest
      /\ call.serial_file.t = "none" ) =>
        /\ result.kind = "return"
        /\ \A i \in NamedIndexes :
              /\ GivenNames[i].s \in DOMAIN data
              /\ \/ IsListOf(data[GivenNames[i].s], ValuesAt(i))
                 \/ \E j \in NamedIndexes \cup {0} :
                       \/ j > i /\ GivenNames[j].s = GivenNames[i].s
                       \/ j = 0 /\ GivenNames[i].s = "data table"

(***************************************************************************)
(* C9  For every data_table and column_names with more names than the      *)
(* maximum row length, serialize_data raises ImproperSizeError, whether or *)
(* not the names are null and whatever output_file is; the check is made   *)
(* only when column names are supplied.                                    *)
(***************************************************************************)
C9_ImproperSizeIffTooManyNames ==
    Done =>
        ( result = Raise("ImproperSizeError") <=>
            (NamesGiven /\ HasRows /\ Len(GivenNames) > Widest) )

C9_Witness ==
    /\ Done
    /\ NamesGiven
    /\ HasRows
    /\ Len(GivenNames) = Widest + 1
    /\ NamedIndexes = {}
    /\ call.serial_file = NotesFile
    /\ result = Raise("ImproperSizeError")

(***************************************************************************)
(* The store                                                               *)
(***************************************************************************)
Store == fs[FileKey(StoreFile)]

\* the last call was a serialize_data naming this output file
Saved(file) == call.op = "serialize" /\ call.serial_file = file

(***************************************************************************)
(* C2  After any sequence of successful serialize_data calls naming the    *)
(* same output_file the store holds one entry per title written, the Data  *)
(* Object of the most recent call with that title, and the entries it held *)
(* before under titles no call wrote, unchanged.                           *)
(***************************************************************************)
C2_StoreHoldsLatestPerTitle ==
    (pc = "idle" /\ clean /\ DOMAIN written # {}) =>
        /\ Store.kind = "json"
        /\ Store.doc.j = "object"
        /\ DOMAIN Store.doc.members = DOMAIN written \cup DOMAIN store0
        /\ \A title \in DOMAIN written :
              Store.doc.members[title] = written[title]
        /\ \A title \in DOMAIN store0 \ DOMAIN written :
              Store.doc.members[title] = store0[title]

C2_Witness ==
    /\ pc = "idle"
    /\ clean
    /\ Saved(StoreFile)
    /\ result.kind = "return"
    /\ DOMAIN store0 = {"old.dat"}
    /\ DOMAIN written = {"run1.dat", "run2.dat"}
    /\ DOMAIN Store.doc.members = {"old.dat", "run1.dat", "run2.dat"}
    /\ "x" \in DOMAIN written["run1.dat"].members
    /\ "data table" \in DOMAIN data

(***************************************************************************)
(* C3  Round trip: deserialize_data(f) right after a successful            *)
(* serialize_data(..., output_file=f) returns a mapping that has the title *)
(* key, whose value equals the Data Object serialize_data built, and that  *)
(* equals the mapping serialize_data returned.  As stated.                 *)
(***************************************************************************)
RoundTrip ==
    /\ call.op = "deserialize"
    /\ call.filetype.t = "none"
    /\ prev.call.op = "serialize"

PrevTitle == Title(prev.call.filename)

C3_RoundTripUnchanged ==
    RoundTrip =>
        /\ result.kind = "return"
        /\ PrevTitle \in DOMAIN result.value.d
        /\ result.value.d[PrevTitle] = Dict(prev.data)
        /\ result.value = prev.result.value

\* a value with every numeric array replaced by its nested lists of numbers
RECURSIVE ArraysAsLists(_)
ArraysAsLists(v) ==
    IF v.t = "ndarray"
    THEN List([r \in 1..Len(v.rows) |->
                 List([c \in 1..Len(v.rows[r]) |-> Num(v.rows[r][c])])])
    ELSE IF v.t = "list"
    THEN List([i \in 1..Len(v.items) |-> ArraysAsLists(v.items[i])])
    ELSE IF v.t = "dict"
    THEN Dict([k \in DOMAIN v.d |-> ArraysAsLists(v.d[k])])
    ELSE v

\* C3, amended: the loaded mapping has the title key; its value is the Data
\* Object with every numeric array replaced by its nested lists, and the
\* mapping is the returned mapping with the same replacement (so both are
\* equal outright when the Data Object holds no array).
C3_RoundTripUpToArrays ==
    RoundTrip =>
        /\ result.kind = "return"
        /\ PrevTitle \in DOMAIN result.value.d
        /\ result.value.d[PrevTitle] = ArraysAsLists(Dict(prev.data))
        /\ result.value = ArraysAsLists(prev.result.value)

C3_Witness ==
    /\ RoundTrip
    /\ result.kind = "return"
    /\ prev.data["data table"].t = "ndarray"
    /\ result.value.d[PrevTitle].d["data table"].t = "list"
    /\ "old.dat" \in DOMAIN result.value.d

(***************************************************************************)
(* C4  deserialize_data fails with UnsupportedTypeError whenever the       *)
(* effective extension (filetype when given, else the suffix of filename)  *)
(* is not a supported format.                                              *)
(***************************************************************************)
EffectiveExtension ==
    IF call.filetype.t = "none" THEN PathSuffix(call.filename)
    ELSE call.filetype.s

C4_UnsupportedExtensionRaises ==
    (call.op = "deserialize" /\ EffectiveExtension # ".json") =>
        result = Raise("UnsupportedTypeError")

(***************************************************************************)
(* C8  The persisted store is valid JSON at all times: in every reachable  *)
(* state of the output file, between the steps of a call and after a call  *)
(* that fails while encoding or writing, its content is a complete JSON    *)
(* mapping.                                                                *)
(***************************************************************************)
C8_StoreAlwaysValidJson ==
    Store.kind # "absent" => (Store.kind = "json" /\ Store.doc.j = "object")

\* C8 of the states a finished call leaves behind: the part of the claim
\* about a call that fails while encoding
C8_StoreValidJsonAfterCall ==
    pc = "idle" => C8_StoreAlwaysValidJson

(***************************************************************************)
(* C10  A serialize_data call whose output_file has an unsupported         *)
(* extension fails with UnsupportedTypeError before any file access: no    *)
(* file is created and no content changes; a call without output_file does *)
(* no disk I/O either.  As stated, of the step that runs the call; the     *)
(* tables are the arrays, which serialize_data indexes without error.      *)
(***************************************************************************)
\* this step runs a serialize_data call
SerializeStep == pc = "idle" /\ call'.op = "serialize"

UnsupportedOutput(c) ==
    c.serial_file.t = "path" /\ PathSuffix(c.serial_file) # ".json"

C10_UnsupportedOutputRaises ==
    [][ (SerializeStep /\ call'.data_table.t = "ndarray") =>
          /\ UnsupportedOutput(call') =>
                /\ result' = Raise("UnsupportedTypeError")
                /\ fs' = fs
                /\ pc' = "idle"
          /\ call'.serial_file.t = "none" => (fs' = fs /\ pc' = "idle") ]_vars

\* the exception building the Record raises for these arguments, "" if none
RecordError(c) ==
    LET lens == RowLengths(c.data_table)
        names == c.dt_colnames.items
    IN  IF c.dt_colnames.t = "none" THEN ""
        ELSE IF Len(lens) = 0 THEN "ValueError"
        ELSE IF \A i \in 1..Len(lens) : lens[i] < Len(names)
        THEN "ImproperSizeError"
        ELSE IF c.data_table.t = "list"
                /\ \E i \in 1..Len(names) : names[i].t # "none"
        THEN "TypeError"
        ELSE ""

\* C10, amended: such a call fails before any file access, with the error
\* of building the Record when that fails (ImproperSizeError, or the error
\* the table raises) and with UnsupportedTypeError otherwise.
C10_UnsupportedOutputFailsUntouched ==
    [][ SerializeStep =>
          /\ UnsupportedOutput(call') =>
                /\ result' = Raise(IF RecordError(call') = ""
                                   THEN "UnsupportedTypeError"
                                   ELSE RecordError(call'))
                /\ fs' = fs
                /\ pc' = "idle"
          /\ call'.serial_file.t = "none" => (fs' = fs /\ pc' = "idle") ]_vars

C10_Witness ==
    /\ Done
    /\ call.serial_file = NotesFile
    /\ result = Raise("UnsupportedTypeError")
    /\ fs[FileKey(NotesFile)] = PlainText
    /\ Store.kind = "json"
====
